---- MODULE Spec2Model ----
(***************************************************************************)
(* WaypointSmoother (src/main.cpp): main builds a Path of 2-D waypoints    *)
(* and calls generateSmoothPath, which injects two boundary control        *)
(* points, computes one Catmull-Rom segment per window of four control     *)
(* points and samples every segment with a double loop counter t.          *)
(*                                                                         *)
(* Numbers.  A coordinate (a C++ double) is modelled as an extended        *)
(* rational: a reduced fraction n/d, or one of the IEEE special values     *)
(* NaN, +Infinity, -Infinity, with the IEEE rules for the operations that  *)
(* produce and propagate them.  Rounding of finite coordinate results is   *)
(* not modelled.  The sign of zero is not modelled: every divisor in the   *)
(* program is a knot spacing (or a sum of two), which is never -0.         *)
(* The loop counter t of the sampling loop IS modelled bit for bit as an   *)
(* IEEE-754 binary64 number (53-bit significand, round to nearest, ties    *)
(* to even), because the number of samples depends on its rounding.        *)
(***************************************************************************)
EXTENDS Integers, Sequences, FiniteSets, TLC

\* ------------------------------------------------------------------ bounds

\* longest input path
MaxN == 3

\* --------------------------------------------------------- evaluation order

\* An operation applied to the values of its operands, each operand evaluated
\* once (C++ evaluates an operand before the call). TLC substitutes an
\* operand expression at each of its uses when it computes ENABLED; binding
\* it through a one-element set keeps the nested arithmetic linear.
Strict1(Op(_), x) == CHOOSE r \in {Op(v) : v \in {x}} : TRUE
Strict2(Op(_, _), x, y) == CHOOSE r \in {Op(v, w) : v \in {x}, w \in {y}} : TRUE
Strict3(Op(_, _, _), x, y, u) ==
    CHOOSE r \in {Op(v, w, q) : v \in {x}, w \in {y}, q \in {u}} : TRUE

\* ------------------------------------------------- double: extended rationals

Abs(n) == IF n < 0 THEN -n ELSE n

RECURSIVE Gcd(_, _)
GcdOf(a, b) == IF b = 0 THEN a ELSE Gcd(b, a % b)
Gcd(a, b) == Strict2(GcdOf, a, b)

\* the finite double n/d (d # 0), reduced, the sign carried by n
FinOf(n, d) ==
    LET g == Gcd(Abs(n), Abs(d))
        s == IF d < 0 THEN -1 ELSE 1
    IN  [k |-> "fin", n |-> s * (n \div g), d |-> s * (d \div g)]
Fin(n, d) == Strict2(FinOf, n, d)

R(n) == [k |-> "fin", n |-> n, d |-> 1]
NaN == [k |-> "nan", n |-> 0, d |-> 1]
PInf == [k |-> "pinf", n |-> 0, d |-> 1]
NInf == [k |-> "ninf", n |-> 0, d |-> 1]

IsFin(x) == x.k = "fin"
IsZero(x) == x.k = "fin" /\ x.n = 0
\* -1, 0, 1 (0 for NaN as well as for zero)
Sgn(x) ==
    CASE x.k = "pinf" -> 1
      [] x.k = "ninf" -> -1
      [] x.k = "nan" -> 0
      [] OTHER -> IF x.n > 0 THEN 1 ELSE IF x.n < 0 THEN -1 ELSE 0

InfOf(s) == IF s > 0 THEN PInf ELSE NInf

\* unary minus
NegOf(x) ==
    CASE x.k = "fin" -> [x EXCEPT !.n = -x.n]
      [] x.k = "pinf" -> NInf
      [] x.k = "ninf" -> PInf
      [] OTHER -> NaN
Neg(x) == Strict1(NegOf, x)

\* x + y: NaN propagates, Infinity + -Infinity is NaN
AddOf(x, y) ==
    CASE x.k = "nan" \/ y.k = "nan" -> NaN
      [] IsFin(x) /\ IsFin(y) ->
            LET g == Gcd(x.d, y.d)
                l == (x.d \div g) * y.d
            IN  Fin(x.n * (l \div x.d) + y.n * (l \div y.d), l)
      [] IsFin(x) -> y
      [] IsFin(y) -> x
      [] OTHER -> IF x.k = y.k THEN x ELSE NaN
Add(x, y) == Strict2(AddOf, x, y)

\* x - y
Sub(x, y) == Add(x, Neg(y))

\* x * y: NaN propagates, 0 * Infinity is NaN
MulOf(x, y) ==
    CASE x.k = "nan" \/ y.k = "nan" -> NaN
      [] IsFin(x) /\ IsFin(y) ->
            LET g1 == Gcd(Abs(x.n), y.d)
                g2 == Gcd(Abs(y.n), x.d)
            IN  Fin((x.n \div g1) * (y.n \div g2), (x.d \div g2) * (y.d \div g1))
      [] IsZero(x) \/ IsZero(y) -> NaN
      [] OTHER -> InfOf(Sgn(x) * Sgn(y))
Mul(x, y) == Strict2(MulOf, x, y)

\* x / y: 0/0 and Infinity/Infinity are NaN, nonzero/0 is a signed Infinity
DivOf(x, y) ==
    CASE x.k = "nan" \/ y.k = "nan" -> NaN
      [] IsFin(x) /\ IsFin(y) ->
            IF y.n = 0
            THEN IF x.n = 0 THEN NaN ELSE InfOf(Sgn(x))
            ELSE Mul(x, Fin(y.d, y.n))
      [] IsFin(x) -> R(0)
      [] IsFin(y) -> InfOf(Sgn(x) * (IF Sgn(y) < 0 THEN -1 ELSE 1))
      [] OTHER -> NaN
Div(x, y) == Strict2(DivOf, x, y)

RECURSIVE IPow(_, _)
IPow(b, e) == IF e = 0 THEN 1 ELSE b * IPow(b, e - 1)

\* the r >= 0 with r^d = n, for n a perfect d-th power
IRoot(n, d) == CHOOSE r \in 0..n : IPow(r, d) = n

IsPower(n, d) == \E r \in 0..n : IPow(r, d) = n

\* pow(x, e) of <cmath> for a rational exponent e = e.n/e.d > 0, on the
\* arguments whose result is rational: e.d-th roots of numerator and
\* denominator, raised to e.n. A negative base with a fractional exponent
\* is NaN.
powOf(x, e) ==
    CASE x.k = "nan" -> NaN
      [] x.k = "pinf" -> PInf
      [] x.k = "ninf" -> IF e.d = 1 /\ e.n % 2 = 1 THEN NInf ELSE PInf
      [] OTHER ->
            IF x.n < 0 /\ e.d # 1
            THEN NaN
            ELSE LET s == IF x.n < 0 /\ e.n % 2 = 1 THEN -1 ELSE 1
                 IN  Fin(s * IPow(IRoot(Abs(x.n), e.d), e.n),
                         IPow(IRoot(x.d, e.d), e.n))
pow(x, e) == Strict2(powOf, x, e)

\* sqrt(x) of <cmath>: NaN for a negative argument
sqrt(x) == IF x.k = "ninf" THEN NaN ELSE pow(x, Fin(1, 2))

\* ------------------------------------------ double: the loop counter, bit-exact

\* A positive normal binary64 number is [e |-> E, m |-> <<m1, m2, m3>>]: its
\* 53-bit significand is M = m1 * Limb^2 + m2 * Limb + m3 with
\* 2^52 <= M < 2^53 and 0 <= m2, m3 < Limb, and its value is M * 2^(E - 52).
\* (Three limbs of 18 bits keep every intermediate result below 2^31.)
Limb == 262144

\* the least top limb of a number of 53 + k bits: 2^(52 + k) / Limb^2
TopBit(k) == IPow(2, 16 + k)

\* (mutant of DTenth) the literal written 0.1f: the binary32 number nearest to
\* 1/10 widened to double, 0x1.99999ap-4
DTenthFloat == [e |-> -4, m |-> <<104857, 157696, 0>>]

\* the literal 0.1: the binary64 number nearest to 1/10,
\* 0x1.999999999999ap-4, significand 0x1999999999999A
DTenth == [e |-> -4, m |-> <<104857, 157286, 104858>>]

\* the literal 1 converted to double: 0x1.0000000000000p+0
DOne == [e |-> 0, m |-> <<TopBit(0), 0, 0>>]

\* carries propagated from the low limb upwards; the top limb keeps the excess
CarryOf(m) ==
    LET c3 == m[3] \div Limb
        s2 == m[2] + c3
    IN  <<m[1] + s2 \div Limb, s2 % Limb, m[3] % Limb>>
Carry(m) == Strict1(CarryOf, m)

\* m \div 2^k for 0 <= k <= 18
ShiftRightOf(m, k) ==
    LET p == IPow(2, k)
        q == Limb \div p
    IN  <<m[1] \div p, m[2] \div p + (m[1] % p) * q, m[3] \div p + (m[2] % p) * q>>
ShiftRight(m, k) == Strict2(ShiftRightOf, m, k)

\* The exact value S * 2^(e - 52 - k), where S (the limbs s) has 53 + k bits,
\* rounded to 53 bits, to nearest, ties to even (the
\* default IEEE rounding mode of the addition).
DRoundOf(s, k, e) ==
    LET kept == ShiftRight(s, k)
        rest == s[3] % IPow(2, k)
        half == IF k = 0 THEN 1 ELSE IPow(2, k - 1)
        up == k > 0 /\ (rest > half \/ (rest = half /\ kept[3] % 2 = 1))
        inc == Carry(<<kept[1], kept[2], kept[3] + 1>>)
    IN  IF ~up THEN [e |-> e, m |-> kept]
        ELSE IF inc[1] >= TopBit(1) THEN [e |-> e + 1, m |-> ShiftRight(inc, 1)]
        ELSE [e |-> e, m |-> inc]
DRound(s, k, e) == Strict3(DRoundOf, s, k, e)

\* x + y of two positive normal doubles whose exponents differ by at most
\* 12: the exact sum, rounded once
DAddOf(x, y) ==
    LET hi == IF x.e >= y.e THEN x ELSE y
        lo == IF x.e >= y.e THEN y ELSE x
        sh == hi.e - lo.e
        p == IPow(2, sh)
        sum == Carry(<<hi.m[1] * p + lo.m[1], hi.m[2] * p + lo.m[2], hi.m[3] * p + lo.m[3]>>)
    IN  IF sum[1] >= TopBit(sh + 1)
        THEN DRound(sum, sh + 1, hi.e + 1)
        ELSE DRound(sum, sh, hi.e)
DAdd(x, y) == Strict2(DAddOf, x, y)

\* x <= y of two positive normal doubles
DLeOf(x, y) ==
    \/ x.e < y.e
    \/ /\ x.e = y.e
       /\ \/ x.m[1] < y.m[1]
          \/ x.m[1] = y.m[1] /\ x.m[2] < y.m[2]
          \/ x.m[1] = y.m[1] /\ x.m[2] = y.m[2] /\ x.m[3] <= y.m[3]
DLe(x, y) == Strict2(DLeOf, x, y)

\* The double t in (0, 2) as a coordinate value. Coordinates are exact
\* rationals here, so t enters the polynomial as the decimal j/10 nearest to
\* it: j = round(10 * t), computed from the leading 20 bits of t. The j-th
\* value of the loop counter differs from j/10 by less than 2^-50.
DToTenthsOf(t) ==
    LET top == t.m[1] * 8 + t.m[2] \div IPow(2, 15)
        q == IF t.e >= 0 THEN top * IPow(2, t.e + 1) ELSE top \div IPow(2, -(t.e + 1))
    IN  (q * 10 + IPow(2, 19)) \div IPow(2, 20)
DToTenths(t) == Strict1(DToTenthsOf, t)

DToCoord(t) == Fin(DToTenths(t), 10)

\* ------------------------------------------------------------- the program

\* main's path, generateSmoothPath's by-value parameter path (localPath), its
\* locals segments, i, smoothedPath, z, t, the knot spacings t01, t12, t23 of
\* the calcCoefficients calls made so far (knots), and the program counter.
VARIABLES path, localPath, segments, knots, i, smoothedPath, z, t, pc

vars == <<path, localPath, segments, knots, i, smoothedPath, z, t, pc>>

\* point.at(0), point.at(1) of a point {x, y}
X(point) == point[1]
Y(point) == point[2]

\* std::deque::at: the range check that throws std::out_of_range
InRange(points, idx) == 0 <= idx /\ idx < Len(points)

\* Path::getPoint(t) for an index in range
getPoint(points, idx) == points[idx + 1]

\* Path::addPoint
addPoint(points, point) == Append(points, point)

\* return the magnitude of a vector
getMagnitude(point) == sqrt(Add(pow(X(point), R(2)), pow(Y(point), R(2))))

\* calculates the distance between 2 vectors; the second component of the
\* difference is p1.at(1) - p1.at(1), as in the source
distance(p0, p1) == getMagnitude(<<Sub(X(p1), X(p0)), Sub(Y(p1), Y(p1))>>)

\* the call's arguments alpha = 0.75 and tension = 0
Alpha == Fin(3, 4)
Tension == R(0)

\* t01, t12, t23 of calcCoefficients
KnotSpacings(alpha, p0, p1, p2, p3) ==
    <<pow(distance(p0, p1), alpha), pow(distance(p1, p2), alpha), pow(distance(p2, p3), alpha)>>

\* m1x / m1y: c is the coordinate (X or Y as 1 or 2)
Tangent1(tension, t01, t12, p0, p1, p2, c) ==
    Mul(Sub(R(1), tension),
        Add(Sub(p2[c], p1[c]),
            Mul(t12, Sub(Div(Sub(p1[c], p0[c]), t01),
                         Div(Sub(p2[c], p0[c]), Add(t01, t12))))))

\* m2x / m2y
Tangent2(tension, t12, t23, p1, p2, p3, c) ==
    Mul(Sub(R(1), tension),
        Add(Sub(p2[c], p1[c]),
            Mul(t12, Sub(Div(Sub(p3[c], p2[c]), t23),
                         Div(Sub(p3[c], p1[c]), Add(t12, t23))))))

\* the coefficients a, b, c, d of one coordinate
CoefA(p1c, p2c, m1c, m2c) == Add(Add(Mul(R(2), Sub(p1c, p2c)), m1c), m2c)
CoefB(p1c, p2c, m1c, m2c) == Sub(Sub(Sub(Mul(R(-3), Sub(p1c, p2c)), m1c), m1c), m2c)

\* lines 81-87: the segment of p1, p2 and the tangents m1, m2
SegmentOf(p1, p2, m1, m2) ==
    [a |-> <<CoefA(X(p1), X(p2), X(m1), X(m2)), CoefA(Y(p1), Y(p2), Y(m1), Y(m2))>>,
     b |-> <<CoefB(X(p1), X(p2), X(m1), X(m2)), CoefB(Y(p1), Y(p2), Y(m1), Y(m2))>>,
     c |-> <<X(m1), Y(m1)>>,
     d |-> <<X(p1), Y(p1)>>]

calcCoefficients(alpha, tension, p0, p1, p2, p3) ==
    Strict1(LAMBDA ks :
                Strict2(LAMBDA m1, m2 : SegmentOf(p1, p2, m1, m2),
                        <<Tangent1(tension, ks[1], ks[2], p0, p1, p2, 1),
                          Tangent1(tension, ks[1], ks[2], p0, p1, p2, 2)>>,
                        <<Tangent2(tension, ks[2], ks[3], p1, p2, p3, 1),
                          Tangent2(tension, ks[2], ks[3], p1, p2, p3, 2)>>),
            KnotSpacings(alpha, p0, p1, p2, p3))

\* xVal / yVal: a*t^3 + b*t^2 + c*t + d of coordinate c at the coordinate value tc
PolyAt(seg, c, tc) ==
    Add(Add(Add(Mul(seg.a[c], pow(tc, R(3))), Mul(seg.b[c], pow(tc, R(2)))),
            Mul(seg.c[c], tc)),
        seg.d[c])

\* the point sampled from a segment at the loop counter's value
SamplePoint(seg, tt) == <<PolyAt(seg, 1, DToCoord(tt)), PolyAt(seg, 2, DToCoord(tt))>>

\* (mutant of WindowLoopCond) the bound off by one: i <= size() - 3
WindowLoopCondInclusive(ii, size) == IF size >= 3 THEN ii <= size - 3 ELSE TRUE

\* i < path.points.size() - 3: i is converted to size_t and size() - 3 is
\* computed in size_t, so below 3 points it wraps around to at least
\* 2^64 - 3, above every value of the int i
WindowLoopCond(ii, size) == IF size >= 3 THEN ii < size - 3 ELSE TRUE

\* ------------------------------------------------------------------ inputs

\* x coordinates with steps of 0, 1 and 16: the knot spacings 0, 1 and 8
Xs == {0, 1, 17}
\* y coordinates: equal or different, whatever the x coordinates are
Ys == {0, 1}
Points == {<<R(x), R(y)>> : x \in Xs, y \in Ys}

RECURSIVE SeqsOf(_, _)
SeqsOf(S, n) == IF n = 0 THEN {<<>>} ELSE {Append(q, e) : q \in SeqsOf(S, n - 1), e \in S}

\* The inputs on which pow(., 0.75) is rational: the distance the program
\* computes between consecutive waypoints (and so between consecutive control
\* points, the boundary points repeating the adjacent step) is a fourth power.
Exact(w) ==
    \A j \in 1..(Len(w) - 1) :
        LET dist == distance(w[j], w[j + 1]) IN IsPower(dist.n, 4) /\ dist.d = 1

Inputs == {w \in UNION {SeqsOf(Points, n) : n \in 0..MaxN} : Exact(w)}

Init ==
    /\ path \in Inputs
    /\ localPath = <<>>
    /\ segments = <<>>
    /\ knots = <<>>
    /\ i = 0
    /\ smoothedPath = <<>>
    /\ z = 0
    /\ t = DTenth
    /\ pc = "main"

\* main line 187: the call copies path into the parameter
Call ==
    /\ pc = "main"
    /\ localPath' = path
    /\ pc' = "inject_first"
    /\ UNCHANGED <<path, segments, knots, i, smoothedPath, z, t>>

\* the exception leaves generateSmoothPath: no result is returned
Throw ==
    /\ pc' = "error"
    /\ UNCHANGED <<path, localPath, segments, knots, i, smoothedPath, z, t>>

\* (mutant of InjectFirst) the second waypoint read without a range check:
\* a path of one point takes its only point as the second one too
InjectFirstUnchecked ==
    /\ pc = "inject_first"
    /\ IF ~InRange(localPath, 0)
       THEN Throw
       ELSE LET firstPoint == getPoint(localPath, 0)
                second == IF InRange(localPath, 1) THEN getPoint(localPath, 1) ELSE firstPoint
                startingControl == <<Sub(X(firstPoint), Sub(X(second), X(firstPoint))),
                                     Sub(Y(firstPoint), Sub(Y(second), Y(firstPoint)))>>
            IN  /\ localPath' = <<startingControl>> \o localPath
                /\ pc' = "inject_last"
                /\ UNCHANGED <<path, segments, knots, i, smoothedPath, z, t>>

\* (mutant of InjectFirst) the parameter taken by reference (Path& path):
\* push_front acts on the caller's deque
InjectFirstByReference ==
    /\ pc = "inject_first"
    /\ IF ~InRange(localPath, 0) \/ ~InRange(localPath, 1)
       THEN Throw
       ELSE LET firstPoint == getPoint(localPath, 0)
                diff_x1 == Sub(X(getPoint(localPath, 1)), X(firstPoint))
                diff_y1 == Sub(Y(getPoint(localPath, 1)), Y(firstPoint))
                startingControl == <<Sub(X(firstPoint), diff_x1), Sub(Y(firstPoint), diff_y1)>>
            IN  /\ localPath' = <<startingControl>> \o localPath
                /\ path' = localPath'
                /\ pc' = "inject_last"
                /\ UNCHANGED <<segments, knots, i, smoothedPath, z, t>>

\* lines 104-111: inject first control point
InjectFirst ==
    /\ pc = "inject_first"
    /\ IF ~InRange(localPath, 0) \/ ~InRange(localPath, 1)
       THEN Throw
       ELSE LET firstPoint == getPoint(localPath, 0)
                diff_x1 == Sub(X(getPoint(localPath, 1)), X(firstPoint))
                diff_y1 == Sub(Y(getPoint(localPath, 1)), Y(firstPoint))
                startingControl == <<Sub(X(firstPoint), diff_x1), Sub(Y(firstPoint), diff_y1)>>
            IN  /\ localPath' = <<startingControl>> \o localPath
                /\ pc' = "inject_last"
                /\ UNCHANGED <<path, segments, knots, i, smoothedPath, z, t>>

\* (mutant of InjectLast) the indices of the last two waypoints taken as they
\* were before push_front: size() - 2 and size() - 3
InjectLastStale ==
    /\ pc = "inject_last"
    /\ LET size == Len(localPath)
       IN  IF ~InRange(localPath, size - 2) \/ ~InRange(localPath, size - 3)
           THEN Throw
           ELSE LET lastPoint == getPoint(localPath, size - 2)
                    diff_x2 == Sub(X(lastPoint), X(getPoint(localPath, size - 3)))
                    diff_y2 == Sub(Y(lastPoint), Y(getPoint(localPath, size - 3)))
                    finalControl == <<Add(X(lastPoint), diff_x2), Add(Y(lastPoint), diff_y2)>>
                IN  /\ localPath' = Append(localPath, finalControl)
                    /\ i' = 0
                    /\ pc' = "window_loop"
                    /\ UNCHANGED <<path, segments, knots, smoothedPath, z, t>>

\* lines 115-121: inject last control point
InjectLast ==
    /\ pc = "inject_last"
    /\ LET size == Len(localPath)
       IN  IF ~InRange(localPath, size - 1) \/ ~InRange(localPath, size - 2)
           THEN Throw
           ELSE LET lastPoint == getPoint(localPath, size - 1)
                    diff_x2 == Sub(X(lastPoint), X(getPoint(localPath, size - 2)))
                    diff_y2 == Sub(Y(lastPoint), Y(getPoint(localPath, size - 2)))
                    finalControl == <<Add(X(lastPoint), diff_x2), Add(Y(lastPoint), diff_y2)>>
                IN  /\ localPath' = Append(localPath, finalControl)
                    /\ i' = 0
                    /\ pc' = "window_loop"
                    /\ UNCHANGED <<path, segments, knots, smoothedPath, z, t>>

\* lines 127-133: one iteration of the window loop
WindowStep ==
    /\ pc = "window_loop"
    /\ WindowLoopCond(i, Len(localPath))
    /\ IF \E k \in 0..3 : ~InRange(localPath, i + k)
       THEN Throw
       ELSE LET p0 == getPoint(localPath, i)
                p1 == getPoint(localPath, i + 1)
                p2 == getPoint(localPath, i + 2)
                p3 == getPoint(localPath, i + 3)
            IN  /\ segments' = Append(segments, calcCoefficients(Alpha, Tension, p0, p1, p2, p3))
                /\ knots' = Append(knots, KnotSpacings(Alpha, p0, p1, p2, p3))
                /\ i' = i + 1
                /\ UNCHANGED <<path, localPath, smoothedPath, z, t, pc>>

\* line 127: the window loop's condition fails
WindowExit ==
    /\ pc = "window_loop"
    /\ ~WindowLoopCond(i, Len(localPath))
    /\ z' = 0
    /\ pc' = "segment_loop"
    /\ UNCHANGED <<path, localPath, segments, knots, i, smoothedPath, t>>

\* (mutant of SegmentStart) the test z == 0 dropped: every segment adds its
\* first point
SegmentStartEvery ==
    /\ pc = "segment_loop"
    /\ z < Len(segments)
    /\ smoothedPath' = addPoint(smoothedPath, segments[z + 1].d)
    /\ t' = DTenth
    /\ pc' = "sample_loop"
    /\ UNCHANGED <<path, localPath, segments, knots, i, z>>

\* lines 139-159: a segment's iteration begins; the first one adds the first
\* point of the first segment
SegmentStart ==
    /\ pc = "segment_loop"
    /\ z < Len(segments)
    /\ smoothedPath' = IF z = 0 THEN addPoint(smoothedPath, segments[1].d) ELSE smoothedPath
    /\ t' = DTenth
    /\ pc' = "sample_loop"
    /\ UNCHANGED <<path, localPath, segments, knots, i, z>>

\* lines 159-168: one sample, t += 0.1
SampleStep ==
    /\ pc = "sample_loop"
    /\ DLe(t, DOne)
    /\ smoothedPath' = addPoint(smoothedPath, SamplePoint(segments[z + 1], t))
    /\ t' = DAdd(t, DTenth)
    /\ UNCHANGED <<path, localPath, segments, knots, i, z, pc>>

\* line 159: t <= 1 fails; z++
SampleExit ==
    /\ pc = "sample_loop"
    /\ ~DLe(t, DOne)
    /\ z' = z + 1
    /\ pc' = "segment_loop"
    /\ UNCHANGED <<path, localPath, segments, knots, i, smoothedPath, t>>

\* line 173: return smoothedPath
Return ==
    /\ pc = "segment_loop"
    /\ ~(z < Len(segments))
    /\ pc' = "done"
    /\ UNCHANGED <<path, localPath, segments, knots, i, smoothedPath, z, t>>

Next ==
    \/ Call
    \/ InjectFirst
    \/ InjectLast
    \/ WindowStep
    \/ WindowExit
    \/ SegmentStart
    \/ SampleStep
    \/ SampleExit
    \/ Return

Spec == Init /\ [][Next]_vars

\* the program is sequential: a statement that can run does run
FairSpec == Spec /\ WF_vars(Next)

\* ------------------------------------------------------------------ claims

\* the number N of waypoints of the input
N == Len(path)

\* generateSmoothPath has injected both boundary control points
Extrapolated == pc \in {"window_loop", "segment_loop", "sample_loop", "done"}

\* p - q and p + q of points
PointSub(p, q) == <<Sub(X(p), X(q)), Sub(Y(p), Y(q))>>
PointAdd(p, q) == <<Add(X(p), X(q)), Add(Y(p), Y(q))>>

IsNaNPoint(p) == X(p).k = "nan" \/ Y(p).k = "nan"

\* C1: a returned output path of an input of N >= 2 waypoints has exactly
\* 1 + 10*(N-1) points.
C1_OutputLength ==
    (pc = "done" /\ N >= 2) => Len(smoothedPath) = 1 + 10 * (N - 1)

C1_Witness == pc = "done" /\ N = 3 /\ Len(smoothedPath) = 21

\* C2 (as claimed): in a returned output path of an input of N >= 2
\* waypoints, the point at index 10*k is waypoint k, for every k in 0..N-1.
C2_InterpolatesEveryWaypoint ==
    (pc = "done" /\ N >= 2) =>
        \A k \in 0..(N - 1) : getPoint(smoothedPath, 10 * k) = getPoint(path, k)

\* C3: after boundary extrapolation the control sequence has N+2 points: the
\* first is w[0] - (w[1] - w[0]), the last is w[N-1] + (w[N-1] - w[N-2]), and
\* points 1..N are the waypoints in their order.
C3_BoundaryExtrapolation ==
    Extrapolated =>
        /\ N >= 2
        /\ Len(localPath) = N + 2
        /\ getPoint(localPath, 0) = PointSub(path[1], PointSub(path[2], path[1]))
        /\ getPoint(localPath, N + 1) = PointAdd(path[N], PointSub(path[N], path[N - 1]))
        /\ \A k \in 1..N : getPoint(localPath, k) = path[k]

C3_Witness ==
    /\ pc = "window_loop"
    /\ N = 2
    /\ Len(localPath) = 4
    /\ localPath[4] # localPath[3]
    /\ localPath[1] # localPath[2]

\* C4: with fewer than 2 waypoints generateSmoothPath throws at the first
\* boundary computation, before any segment or output point exists; a run
\* ends either with the full output or in the error outcome with no output.
C4_NoPartialResult ==
    /\ N < 2 => pc \in {"main", "inject_first", "error"}
    /\ (pc = "inject_first" /\ N < 2) => ~ENABLED (InjectFirst /\ pc' # "error")
    /\ pc = "error" => (N < 2 /\ segments = <<>> /\ smoothedPath = <<>>)
    /\ pc = "done" => (N >= 2 /\ Len(smoothedPath) = 1 + 10 * (N - 1))
    /\ pc \in {"main", "inject_first", "inject_last", "window_loop"} => smoothedPath = <<>>

C4_Witness == pc = "error" /\ N = 1 /\ smoothedPath = <<>> /\ segments = <<>>

\* two consecutive control points coincide
Coincident(points) == \E k \in 1..(Len(points) - 1) : points[k] = points[k + 1]

\* C5 (as claimed): when two consecutive control points of the extrapolated
\* sequence coincide, the call ends in an error and returns no output path.
C5_DegenerateSpacingRaised ==
    (Extrapolated /\ Coincident(localPath)) => pc # "done"

\* C6 (as claimed): the square of distance(p0, p1) is
\* (p1.x - p0.x)^2 + (p1.y - p0.y)^2, here for every two consecutive control
\* points, the arguments of the calls calcCoefficients makes.
C6_DistanceIsEuclidean ==
    Extrapolated =>
        \A k \in 1..(Len(localPath) - 1) :
            LET p0 == localPath[k]
                p1 == localPath[k + 1]
                dist == distance(p0, p1)
            IN  Mul(dist, dist) = Add(pow(Sub(X(p1), X(p0)), R(2)), pow(Sub(Y(p1), Y(p0)), R(2)))

\* C7: no step of the call changes the caller's path.
C7_CallerPathUnchanged == [][path' = path]_vars

C7_Witness == pc = "done" /\ Len(localPath) = N + 2 /\ N >= 2

\* the sample of segment seg at t = j/10
SampleAt(seg, j) == <<PolyAt(seg, 1, Fin(j, 10)), PolyAt(seg, 2, Fin(j, 10))>>

\* segment k (from 0) is the one of control points k, k+1, k+2, k+3
WindowIs(k) ==
    /\ Extrapolated
    /\ segments[k + 1] = calcCoefficients(Alpha, Tension, getPoint(localPath, k),
            getPoint(localPath, k + 1), getPoint(localPath, k + 2), getPoint(localPath, k + 3))

\* output index 0 is the initial point, output index 10*z + j (j in 1..10) is
\* the sample of segment z at t = j/10
OutputIs(idx) ==
    getPoint(smoothedPath, idx) =
        IF idx = 0
        THEN segments[1].d
        ELSE SampleAt(segments[((idx - 1) \div 10) + 1], ((idx - 1) % 10) + 1)

\* the indices to look at: all of them in a final state, and the newest one
\* while the loop that appends is running (the sequences only grow at their
\* end)
Newest(len, loop) ==
    IF pc = "done" THEN 0..(len - 1)
    ELSE IF pc = loop THEN {len - 1} \ {-1}
    ELSE {}

\* C8: segment k is computed from control points k, k+1, k+2, k+3, segments
\* and samples are appended in increasing order, output index 0 is the
\* initial point and output index 10*z + j (j in 1..10) is the sample of
\* window z at t = j/10; a returned path has N-1 windows of 10 samples.
C8_WindowsAndSamples ==
    /\ \A k \in Newest(Len(segments), "window_loop") : WindowIs(k)
    /\ \A idx \in Newest(Len(smoothedPath), "sample_loop") : OutputIs(idx)
    /\ pc = "window_loop" => Len(segments) = i
    /\ pc = "segment_loop" => Len(smoothedPath) = (IF z = 0 THEN 0 ELSE 1 + 10 * z)
    /\ pc = "sample_loop" =>
            /\ Len(smoothedPath) \in (1 + 10 * z)..(1 + 10 * z + 10)
            /\ DToTenths(t) = Len(smoothedPath) - 10 * z
    /\ (pc = "done" /\ N >= 2) =>
            /\ Len(segments) = N - 1
            /\ Len(smoothedPath) = 1 + 10 * Len(segments)

C8_Witness ==
    /\ pc = "done"
    /\ N = 3
    /\ ~IsNaNPoint(getPoint(smoothedPath, 20))
    /\ getPoint(smoothedPath, 20) = SampleAt(segments[2], 10)
    /\ getPoint(smoothedPath, 10) # getPoint(smoothedPath, 11)

\* x > 0 (false for NaN)
Positive(x) == Sgn(x) > 0

\* every two consecutive waypoints are distinct points
ConsecutiveDistinct(w) == ~Coincident(w)

\* C9 (as claimed): when every two consecutive waypoints are distinct, every
\* knot spacing computed by every calcCoefficients call is strictly positive.
C9_KnotSpacingsPositive ==
    ConsecutiveDistinct(path) =>
        \A k \in 1..Len(knots) : \A s \in 1..3 : Positive(knots[k][s])

\* C10: every call terminates: with N >= 2 it returns after N-1 windows of 10
\* samples, with N < 2 it ends in the error outcome; the window loop's bound
\* size() - 3 is only evaluated with at least 4 control points.
C10_Terminates ==
    /\ <>(IF N >= 2
          THEN pc = "done" /\ Len(segments) = N - 1 /\ Len(smoothedPath) = 1 + 10 * (N - 1)
          ELSE pc = "error")
    /\ [](pc = "window_loop" => (N >= 2 /\ Len(localPath) >= 4))

C10_Witness == pc = "window_loop" /\ Len(localPath) = 4 /\ i = 1 /\ ~ENABLED WindowStep

====
